---- MODULE Spec2Model ----
\* Model of atom/browser/ui/message_box_win.cc: the Windows task-dialog
\* message box, its synchronous path and its worker-thread asynchronous path.
EXTENDS Integers, Sequences, FiniteSets, TLC

\* ---------------------------------------------------------------------------
\* Bounds
MaxCalls == 2
MaxButtons == 2

\* ---------------------------------------------------------------------------
\* Program constants
kIDStart == 100
IDOK == 1
IDCANCEL == 2

Calls == 1..MaxCalls
Windows == {1}
\* Arguments of the calls in the multi-call specification: the empty and a
\* one-button vector, a non-zero cancel id, the same parent.
SpecButtonCounts == {0, 1}
SpecCancelIds == {1}
NoWindow == 0
CancelIds == {-1, 0, 1, 2, 5}
MessageBoxTypes == {"none", "information", "warning", "error"}

\* Mutant: ids start one past kIDStart.
ButtonIdsOffByOne(n) == [i \in 1..n |-> i + kIDStart]

\* Native ids of the task-dialog buttons: button i gets i + kIDStart.
ButtonIds(n) == [i \in 1..n |-> (i - 1) + kIDStart]

\* Mutant: only a positive cancel id makes the dialog cancelable.
DialogFlagsPositiveOnly(cancel_id) ==
  {"TDF_SIZE_TO_CONTENT"} \cup
    (IF cancel_id > 0 THEN {"TDF_ALLOW_DIALOG_CANCELLATION"} ELSE {})

\* Dialog flags built from the cancel id.
DialogFlags(cancel_id) ==
  {"TDF_SIZE_TO_CONTENT"} \cup
    (IF cancel_id # 0 THEN {"TDF_ALLOW_DIALOG_CANCELLATION"} ELSE {})

\* Mutant: IDCANCEL is not recognised.
MapIdNoCancelCheck(id, cancel_id) ==
  IF id = 0 THEN cancel_id ELSE id - kIDStart

\* Mapping of the identifier left by TaskDialogIndirect to the result.
MapId(id, cancel_id) ==
  IF id = 0 \/ id = IDCANCEL THEN cancel_id ELSE id - kIDStart

\* Outcomes of the native dialog for a configuration with n buttons:
\* the user picks button i, dismisses the dialog (only when cancellation is
\* allowed), the call fails leaving id at 0, or with no custom button the
\* dialog shows its default OK button which the user presses.
Pick(i) == [k |-> "pick", i |-> i]
Dismiss == [k |-> "cancel", i |-> 0]
Failure == [k |-> "fail", i |-> 0]
DefaultOk == [k |-> "ok", i |-> 0]
NoOutcome == [k |-> "none", i |-> 0]
AllOutcomes == {Pick(i) : i \in 0..(MaxButtons - 1)} \cup {Dismiss, Failure, DefaultOk}

NativeOutcomes(n, cancel_id) ==
  {Pick(i) : i \in 0..(n - 1)} \cup {Failure}
    \cup (IF "TDF_ALLOW_DIALOG_CANCELLATION" \in DialogFlags(cancel_id)
            THEN {Dismiss} ELSE {})
    \cup (IF n = 0 THEN {DefaultOk} ELSE {})

\* The identifier TaskDialogIndirect writes into id for an outcome.
NativeId(n, o) ==
  CASE o.k = "fail" -> 0
    [] o.k = "cancel" -> IDCANCEL
    [] o.k = "ok" -> IDOK
    [] o.k = "pick" -> ButtonIds(n)[o.i + 1]

\* Synchronous result of ShowMessageBoxUTF16 for a native outcome.
ShowMessageBoxUTF16Result(n, cancel_id, outcome) ==
  MapId(NativeId(n, outcome), cancel_id)

\* TASKDIALOGCONFIG built by ShowMessageBoxUTF16 (fields the claims read;
\* "NULL" for a field left zero by config = { 0 }).

\* Mutant: the warning type shows the information icon.
TypeIconWarningAsInfo(type) ==
  CASE type = "information" -> "TD_INFORMATION_ICON"
    [] type = "warning" -> "TD_INFORMATION_ICON"
    [] type = "error" -> "TD_ERROR_ICON"
    [] OTHER -> "NULL"

\* Built-in icon for the message box type; the switch has no default, so
\* MESSAGE_BOX_TYPE_NONE leaves pszMainIcon NULL.
TypeIcon(type) ==
  CASE type = "information" -> "TD_INFORMATION_ICON"
    [] type = "warning" -> "TD_WARNING_ICON"
    [] type = "error" -> "TD_ERROR_ICON"
    [] OTHER -> "NULL"

\* Mutant: message and detail swapped when a detail is given.
MakeConfigSwapped(type, n, cancel_id, message, detail, iconNull) ==
  [dwFlags |-> DialogFlags(cancel_id) \cup
                 (IF ~iconNull THEN {"TDF_USE_HICON_MAIN"} ELSE {}),
   pButtons |-> ButtonIds(n),
   cButtons |-> n,
   hMainIcon |-> IF ~iconNull THEN "HICON" ELSE "NULL",
   pszMainIcon |-> IF ~iconNull THEN "NULL" ELSE TypeIcon(type),
   pszMainInstruction |-> IF detail = "" THEN "NULL" ELSE detail,
   pszContent |-> message]

\* The configuration itself, when building it does not stop the process.
MakeConfig(type, n, cancel_id, message, detail, iconNull) ==
  [dwFlags |-> DialogFlags(cancel_id) \cup
                 (IF ~iconNull THEN {"TDF_USE_HICON_MAIN"} ELSE {}),
   pButtons |-> ButtonIds(n),
   cButtons |-> n,
   hMainIcon |-> IF ~iconNull THEN "HICON" ELSE "NULL",
   pszMainIcon |-> IF ~iconNull THEN "NULL" ELSE TypeIcon(type),
   pszMainInstruction |-> IF detail = "" THEN "NULL" ELSE message,
   pszContent |-> IF detail = "" THEN message ELSE detail]

\* config.pButtons = &dialog_buttons.front(): for an empty vector this is
\* undefined; a checked-iterator build aborts there, before the dialog runs,
\* an unchecked build passes a pointer the dialog never reads (cButtons = 0).
FrontOutcomes(n) == IF n = 0 THEN {"proceed", "abort"} ELSE {"proceed"}

\* ---------------------------------------------------------------------------
\* State of the program: calls of ShowMessageBox made from the UI thread.
VARIABLES
  mode,      \* "none" | "sync" | "async": which ShowMessageBox overload
  nb,        \* number of buttons passed
  cancel,    \* cancel_id passed
  par,       \* parent window (NoWindow for a NULL parent)
  outcome,   \* native outcome of the dialog (NoOutcome before it returns)
  result,    \* value returned by the synchronous path (read once phase = "done")
  phase,     \* "idle" | "dialog" (TaskDialogIndirect running) | "done"
             \* | "aborted" (the process stopped at &front())
  returned,  \* the ShowMessageBox call has returned to its caller
  thread,    \* worker thread object: "none" | "created" | "running" | "deleted"
  started,   \* the worker thread was started
  delBy,     \* thread that destroyed the worker thread object
  wpc,       \* worker position: "none" | "queued" | "dialog" | "ret" | "posted" | "done"
  cbCount,   \* number of callback invocations
  cbVal,     \* value passed to the callback (read once cbCount > 0)
  cbThread,  \* thread the callback ran on
  uiQueue,   \* tasks posted to the UI thread, in order
  uiStack,   \* UI-thread frames of calls not yet returned, innermost last: a
             \* synchronous dialog, or the callback run after a failed Start()
  scope,     \* per window: the DialogScope marker "a modal dialog is active"
  aborted,   \* the process stopped
  cfgIn,     \* arguments of one ShowMessageBoxUTF16 call (ConfigSpec)
  cfg        \* << >>, then << the TASKDIALOGCONFIG it builds >> (ConfigSpec)

vars == <<mode, nb, cancel, par, outcome, result, phase, returned, thread,
          started, delBy, wpc, cbCount, cbVal, cbThread, uiQueue, uiStack,
          scope, aborted, cfgIn, cfg>>
callVars == <<mode, nb, cancel, par, outcome, result, phase, returned, thread,
              started, delBy, wpc, cbCount, cbVal, cbThread, uiQueue, uiStack,
              scope>>

CallInit ==
  /\ mode = [c \in Calls |-> "none"]
  /\ nb = [c \in Calls |-> 0]
  /\ cancel = [c \in Calls |-> 0]
  /\ par = [c \in Calls |-> NoWindow]
  /\ outcome = [c \in Calls |-> NoOutcome]
  /\ result = [c \in Calls |-> 0]
  /\ phase = [c \in Calls |-> "idle"]
  /\ returned = [c \in Calls |-> FALSE]
  /\ thread = [c \in Calls |-> "none"]
  /\ started = [c \in Calls |-> FALSE]
  /\ delBy = [c \in Calls |-> "none"]
  /\ wpc = [c \in Calls |-> "none"]
  /\ cbCount = [c \in Calls |-> 0]
  /\ cbVal = [c \in Calls |-> 0]
  /\ cbThread = [c \in Calls |-> "none"]
  /\ uiQueue = << >>
  /\ uiStack = << >>
  /\ scope = [w \in Windows |-> FALSE]

Init == CallInit /\ aborted = FALSE /\ cfgIn = "none" /\ cfg = << >>

\* Calls are numbered in the order the UI thread makes them.
CallsInOrder(c) == IF c = 1 THEN TRUE ELSE mode[c - 1] # "none"

\* The UI thread runs caller code that may call ShowMessageBox: at top level,
\* inside the callback of a call whose Start() failed, or from a window
\* message dispatched by the modal loop of a synchronous TaskDialogIndirect;
\* the nested call must return before the enclosing frame does.
UICanCall == ~aborted

\* The innermost UI frame belongs to call c.
UITop(c) == IF uiStack = << >> THEN FALSE ELSE uiStack[Len(uiStack)] = c

Pop(sq) == SubSeq(sq, 1, Len(sq) - 1)

\* DialogScope constructor / destructor for a (possibly NULL) parent: the
\* scoped marker is set on entry and cleared on exit. Each write is a single
\* store, so unsynchronised writes from the UI and worker threads give the
\* value of whichever store comes last, as interleaving orders them.
ScopeEnter(s, w) == IF w = NoWindow THEN s ELSE [s EXCEPT ![w] = TRUE]
ScopeLeave(s, w) == IF w = NoWindow THEN s ELSE [s EXCEPT ![w] = FALSE]

\* Synchronous ShowMessageBox called on the UI thread: converts the
\* arguments, takes the DialogScope, builds the config and enters
\* TaskDialogIndirect (or stops at &front()).
ShowMessageBoxSyncEnter(c, n, cid, w) ==
  /\ UICanCall /\ mode[c] = "none" /\ CallsInOrder(c)
  /\ mode' = [mode EXCEPT ![c] = "sync"]
  /\ nb' = [nb EXCEPT ![c] = n]
  /\ cancel' = [cancel EXCEPT ![c] = cid]
  /\ par' = [par EXCEPT ![c] = w]
  /\ uiStack' = Append(uiStack, c)
  /\ scope' = ScopeEnter(scope, w)
  /\ \E f \in FrontOutcomes(n) :
       IF f = "abort"
         THEN /\ phase' = [phase EXCEPT ![c] = "aborted"]
              /\ aborted' = TRUE
         ELSE /\ phase' = [phase EXCEPT ![c] = "dialog"]
              /\ UNCHANGED aborted
  /\ UNCHANGED <<outcome, result, returned, thread, started, delBy, wpc,
                 cbCount, cbVal, cbThread, uiQueue>>
  /\ UNCHANGED <<cfgIn, cfg>>

\* TaskDialogIndirect returns on the UI thread; the id is mapped back,
\* the DialogScope is destroyed and ShowMessageBox returns.
ShowMessageBoxSyncReturn(c, o) ==
  /\ ~aborted /\ UITop(c) /\ mode[c] = "sync" /\ phase[c] = "dialog"
  /\ o \in NativeOutcomes(nb[c], cancel[c])
  /\ outcome' = [outcome EXCEPT ![c] = o]
  /\ result' = [result EXCEPT ![c] = ShowMessageBoxUTF16Result(nb[c], cancel[c], o)]
  /\ phase' = [phase EXCEPT ![c] = "done"]
  /\ scope' = ScopeLeave(scope, par[c])
  /\ returned' = [returned EXCEPT ![c] = TRUE]
  /\ uiStack' = Pop(uiStack)
  /\ UNCHANGED <<mode, nb, cancel, par, thread, started, delBy, wpc, cbCount,
                 cbVal, cbThread, uiQueue, aborted>>
  /\ UNCHANGED <<cfgIn, cfg>>

\* Mutant: on a failed Start() the callback is posted to the UI loop.
ShowMessageBoxAsyncPostOnFailure(c, n, cid, w, startOk) ==
  /\ UICanCall /\ mode[c] = "none" /\ CallsInOrder(c)
  /\ mode' = [mode EXCEPT ![c] = "async"]
  /\ nb' = [nb EXCEPT ![c] = n]
  /\ cancel' = [cancel EXCEPT ![c] = cid]
  /\ par' = [par EXCEPT ![c] = w]
  /\ IF ~startOk
       THEN /\ uiQueue' = Append(uiQueue, [kind |-> "callback", call |-> c, val |-> cid])
            /\ thread' = [thread EXCEPT ![c] = "created"]
            /\ uiStack' = Append(uiStack, c)
            /\ UNCHANGED <<started, wpc, returned, cbCount, cbVal, cbThread>>
       ELSE /\ thread' = [thread EXCEPT ![c] = "running"]
            /\ started' = [started EXCEPT ![c] = TRUE]
            /\ wpc' = [wpc EXCEPT ![c] = "queued"]
            /\ returned' = [returned EXCEPT ![c] = TRUE]
            /\ UNCHANGED <<cbCount, cbVal, cbThread, uiQueue, uiStack>>
  /\ UNCHANGED <<outcome, result, phase, delBy, scope, aborted>>
  /\ UNCHANGED <<cfgIn, cfg>>

\* Asynchronous ShowMessageBox on the UI thread: creates the worker thread.
\* When Start() fails, callback.Run(cancel_id) runs the caller's callback on
\* this thread (ShowMessageBoxAsyncFailReturn ends it); otherwise the thread
\* object is released, RunMessageBoxInNewThread is posted to its message
\* loop and the call returns.
ShowMessageBoxAsync(c, n, cid, w, startOk) ==
  /\ UICanCall /\ mode[c] = "none" /\ CallsInOrder(c)
  /\ mode' = [mode EXCEPT ![c] = "async"]
  /\ nb' = [nb EXCEPT ![c] = n]
  /\ cancel' = [cancel EXCEPT ![c] = cid]
  /\ par' = [par EXCEPT ![c] = w]
  /\ IF ~startOk
       THEN /\ cbCount' = [cbCount EXCEPT ![c] = @ + 1]
            /\ cbVal' = [cbVal EXCEPT ![c] = cid]
            /\ cbThread' = [cbThread EXCEPT ![c] = "ui"]
            /\ thread' = [thread EXCEPT ![c] = "created"]
            /\ uiStack' = Append(uiStack, c)
            /\ UNCHANGED <<started, wpc, returned>>
       ELSE /\ thread' = [thread EXCEPT ![c] = "running"]
            /\ started' = [started EXCEPT ![c] = TRUE]
            /\ wpc' = [wpc EXCEPT ![c] = "queued"]
            /\ returned' = [returned EXCEPT ![c] = TRUE]
            /\ UNCHANGED <<cbCount, cbVal, cbThread, uiStack>>
  /\ UNCHANGED <<outcome, result, phase, delBy, uiQueue, scope, aborted>>
  /\ UNCHANGED <<cfgIn, cfg>>

\* The callback run after a failed Start() returns; ShowMessageBox returns
\* and the scoped_ptr destroys the thread object on the UI thread.
ShowMessageBoxAsyncFailReturn(c) ==
  /\ ~aborted /\ UITop(c) /\ mode[c] = "async" /\ ~started[c]
  /\ thread' = [thread EXCEPT ![c] = "deleted"]
  /\ delBy' = [delBy EXCEPT ![c] = "ui"]
  /\ returned' = [returned EXCEPT ![c] = TRUE]
  /\ uiStack' = Pop(uiStack)
  /\ UNCHANGED <<mode, nb, cancel, par, outcome, result, phase, started, wpc,
                 cbCount, cbVal, cbThread, uiQueue, scope, aborted>>
  /\ UNCHANGED <<cfgIn, cfg>>

\* RunMessageBoxInNewThread on the worker thread: the synchronous
\* ShowMessageBox takes the DialogScope, builds the config and enters
\* TaskDialogIndirect (or stops at &front()).
RunMessageBoxInNewThreadEnter(c) ==
  /\ ~aborted /\ wpc[c] = "queued"
  /\ scope' = ScopeEnter(scope, par[c])
  /\ wpc' = [wpc EXCEPT ![c] = "dialog"]
  /\ \E f \in FrontOutcomes(nb[c]) :
       IF f = "abort"
         THEN /\ phase' = [phase EXCEPT ![c] = "aborted"]
              /\ aborted' = TRUE
         ELSE /\ phase' = [phase EXCEPT ![c] = "dialog"]
              /\ UNCHANGED aborted
  /\ UNCHANGED <<mode, nb, cancel, par, outcome, result, returned, thread,
                 started, delBy, cbCount, cbVal, cbThread, uiQueue, uiStack>>
  /\ UNCHANGED <<cfgIn, cfg>>

\* TaskDialogIndirect returns on the worker thread; the synchronous
\* ShowMessageBox maps the id and destroys the DialogScope.
RunMessageBoxInNewThreadReturn(c, o) ==
  /\ ~aborted /\ wpc[c] = "dialog"
  /\ o \in NativeOutcomes(nb[c], cancel[c])
  /\ outcome' = [outcome EXCEPT ![c] = o]
  /\ result' = [result EXCEPT ![c] = ShowMessageBoxUTF16Result(nb[c], cancel[c], o)]
  /\ phase' = [phase EXCEPT ![c] = "done"]
  /\ scope' = ScopeLeave(scope, par[c])
  /\ wpc' = [wpc EXCEPT ![c] = "ret"]
  /\ UNCHANGED <<mode, nb, cancel, par, returned, thread, started, delBy,
                 cbCount, cbVal, cbThread, uiQueue, uiStack, aborted>>
  /\ UNCHANGED <<cfgIn, cfg>>

\* Mutant: the callback is bound to cancel_id instead of the result.
RunMessageBoxInNewThreadPostCancel(c) ==
  /\ ~aborted /\ wpc[c] = "ret"
  /\ uiQueue' = Append(uiQueue, [kind |-> "callback", call |-> c, val |-> cancel[c]])
  /\ wpc' = [wpc EXCEPT ![c] = "posted"]
  /\ UNCHANGED <<mode, nb, cancel, par, outcome, result, phase, returned,
                 thread, started, delBy, cbCount, cbVal, cbThread, uiStack,
                 scope, aborted>>
  /\ UNCHANGED <<cfgIn, cfg>>

\* PostTask(UI, Bind(callback, result)) from the worker thread.
RunMessageBoxInNewThreadPostCallback(c) ==
  /\ ~aborted /\ wpc[c] = "ret"
  /\ uiQueue' = Append(uiQueue, [kind |-> "callback", call |-> c, val |-> result[c]])
  /\ wpc' = [wpc EXCEPT ![c] = "posted"]
  /\ UNCHANGED <<mode, nb, cancel, par, outcome, result, phase, returned,
                 thread, started, delBy, cbCount, cbVal, cbThread, uiStack,
                 scope, aborted>>
  /\ UNCHANGED <<cfgIn, cfg>>

\* Mutant: the thread object is never handed to DeleteSoon.
RunMessageBoxInNewThreadNoDelete(c) ==
  /\ ~aborted /\ wpc[c] = "posted"
  /\ wpc' = [wpc EXCEPT ![c] = "done"]
  /\ UNCHANGED <<mode, nb, cancel, par, outcome, result, phase, returned,
                 thread, started, delBy, cbCount, cbVal, cbThread, uiQueue,
                 uiStack, scope, aborted>>
  /\ UNCHANGED <<cfgIn, cfg>>

\* DeleteSoon(UI, thread) from the worker thread, after which the task ends.
RunMessageBoxInNewThreadDeleteSoon(c) ==
  /\ ~aborted /\ wpc[c] = "posted"
  /\ uiQueue' = Append(uiQueue, [kind |-> "delete", call |-> c, val |-> 0])
  /\ wpc' = [wpc EXCEPT ![c] = "done"]
  /\ UNCHANGED <<mode, nb, cancel, par, outcome, result, phase, returned,
                 thread, started, delBy, cbCount, cbVal, cbThread, uiStack,
                 scope, aborted>>
  /\ UNCHANGED <<cfgIn, cfg>>

\* The UI thread runs the oldest posted task from its message loop or from
\* the modal loop of a synchronous TaskDialogIndirect (not while caller code
\* such as a callback is running): the callback, or the thread's deletion.
UIRunTask ==
  /\ ~aborted /\ uiQueue # << >>
  /\ IF uiStack = << >> THEN TRUE ELSE mode[uiStack[Len(uiStack)]] = "sync"
  /\ LET t == Head(uiQueue) IN
       IF t.kind = "callback"
         THEN /\ cbCount' = [cbCount EXCEPT ![t.call] = @ + 1]
              /\ cbVal' = [cbVal EXCEPT ![t.call] = t.val]
              /\ cbThread' = [cbThread EXCEPT ![t.call] = "ui"]
              /\ UNCHANGED <<thread, delBy>>
         ELSE /\ thread' = [thread EXCEPT ![t.call] = "deleted"]
              /\ delBy' = [delBy EXCEPT ![t.call] = "ui"]
              /\ UNCHANGED <<cbCount, cbVal, cbThread>>
  /\ uiQueue' = Tail(uiQueue)
  /\ UNCHANGED <<mode, nb, cancel, par, outcome, result, phase, returned,
                 started, wpc, uiStack, scope, aborted>>
  /\ UNCHANGED <<cfgIn, cfg>>

Next ==
  \/ \E c \in Calls, n \in SpecButtonCounts, cid \in SpecCancelIds,
        w \in Windows : ShowMessageBoxSyncEnter(c, n, cid, w)
  \/ \E c \in Calls, o \in AllOutcomes :
        ShowMessageBoxSyncReturn(c, o)
  \/ \E c \in Calls, n \in SpecButtonCounts, cid \in SpecCancelIds,
        w \in Windows, ok \in BOOLEAN :
        ShowMessageBoxAsync(c, n, cid, w, ok)
  \/ \E c \in Calls : ShowMessageBoxAsyncFailReturn(c)
  \/ \E c \in Calls : RunMessageBoxInNewThreadEnter(c)
  \/ \E c \in Calls, o \in AllOutcomes :
        RunMessageBoxInNewThreadReturn(c, o)
  \/ \E c \in Calls : RunMessageBoxInNewThreadPostCallback(c)
  \/ \E c \in Calls : RunMessageBoxInNewThreadDeleteSoon(c)
  \/ UIRunTask

Spec == Init /\ [][Next]_vars

\* Fair scheduling: worker threads and the UI loop run their tasks, callbacks
\* return, and every shown dialog is eventually closed.
FairSpec ==
  /\ Spec
  /\ \A c \in Calls :
       /\ WF_vars(\E o \in NativeOutcomes(nb[c], cancel[c]) : ShowMessageBoxSyncReturn(c, o))
       /\ WF_vars(ShowMessageBoxAsyncFailReturn(c))
       /\ WF_vars(RunMessageBoxInNewThreadEnter(c))
       /\ WF_vars(\E o \in NativeOutcomes(nb[c], cancel[c]) : RunMessageBoxInNewThreadReturn(c, o))
       /\ WF_vars(RunMessageBoxInNewThreadPostCallback(c))
       /\ WF_vars(RunMessageBoxInNewThreadDeleteSoon(c))
  /\ WF_vars(UIRunTask)

\* ---------------------------------------------------------------------------
\* Single synchronous call with every argument and native outcome.
ResultNext ==
  \/ \E n \in 0..MaxButtons, cid \in CancelIds, w \in Windows \cup {NoWindow} :
       ShowMessageBoxSyncEnter(1, n, cid, w)
  \/ \E o \in AllOutcomes : ShowMessageBoxSyncReturn(1, o)

ResultSpec == Init /\ [][ResultNext]_vars

\* ---------------------------------------------------------------------------
\* Construction of the TASKDIALOGCONFIG from every combination of arguments.
Messages == {"message"}
Details == {"", "detail"}

ConfigInit ==
  /\ CallInit
  /\ aborted = FALSE
  /\ cfgIn \in [type : MessageBoxTypes, n : 0..MaxButtons, cancel_id : CancelIds,
                message : Messages, detail : Details, iconNull : BOOLEAN]
  /\ cfg = << >>

BuildConfig ==
  /\ ~aborted /\ cfg = << >>
  /\ \E f \in FrontOutcomes(cfgIn.n) :
       IF f = "abort"
         THEN /\ aborted' = TRUE /\ UNCHANGED cfg
         ELSE /\ cfg' = << MakeConfig(cfgIn.type, cfgIn.n, cfgIn.cancel_id,
                                      cfgIn.message, cfgIn.detail, cfgIn.iconNull) >>
              /\ UNCHANGED aborted
  /\ UNCHANGED <<callVars, cfgIn>>

ConfigSpec == ConfigInit /\ [][BuildConfig]_vars

\* ---------------------------------------------------------------------------
\* Properties

\* C1: when the user picks the button at position i, the synchronous
\* ShowMessageBox returns i (native id i + kIDStart mapped back).
C1_ChosenButtonIndex ==
  \A c \in Calls :
    (phase[c] = "done" /\ outcome[c].k = "pick") => result[c] = outcome[c].i

C1_Witness ==
  /\ mode[1] = "sync" /\ phase[1] = "done" /\ nb[1] = 2 /\ cancel[1] = 1
  /\ outcome[1] = Pick(0) /\ result[1] = 0

\* C2: when the native call leaves id at 0 or returns IDCANCEL, the
\* synchronous ShowMessageBox returns exactly the caller's cancel id.
C2_CancelOrFailureGivesCancelId ==
  \A c \in Calls :
    (phase[c] = "done" /\ outcome[c].k \in {"fail", "cancel"})
      => result[c] = cancel[c]

C2_Witness ==
  /\ phase[1] = "done" /\ outcome[1] = Failure /\ cancel[1] = 5

\* C9: for every button vector, empty included, and every identifier the
\* native dialog can return, the result is an index in [0, n) or the cancel id.
C9_ResultIsIndexOrCancel ==
  \A c \in Calls :
    phase[c] = "done" => result[c] \in (0..(nb[c] - 1)) \cup {cancel[c]}

\* C3: when the worker thread fails to start, the callback runs once on the
\* calling thread with cancel_id before the call returns; no dialog is shown,
\* no task is posted, and once the call has returned no thread object remains.
C3_StartFailureCallsBackWithCancel ==
  \A c \in Calls :
    (mode[c] = "async" /\ ~started[c]) =>
      /\ cbCount[c] = 1 /\ cbVal[c] = cancel[c] /\ cbThread[c] = "ui"
      /\ phase[c] = "idle" /\ wpc[c] = "none"
      /\ \A i \in DOMAIN uiQueue : uiQueue[i].call # c
      /\ returned[c] => (thread[c] = "deleted" /\ delBy[c] = "ui")

C3_Witness ==
  \E c \in Calls : mode[c] = "async" /\ ~started[c] /\ returned[c] /\ cancel[c] = 1

\* C4: an asynchronous call with a started worker returns at once, its dialog
\* never blocks the UI thread, its callback runs at most once, only on the UI
\* thread, with the synchronous result for the user's choice, and it does run
\* under fair scheduling.
C4Safety ==
  \A c \in Calls :
    mode[c] = "async" =>
      /\ started[c] => (returned[c] /\ \A i \in DOMAIN uiStack : uiStack[i] # c)
      /\ cbCount[c] <= 1
      /\ cbThread[c] \in {"none", "ui"}
      /\ (started[c] /\ cbCount[c] = 1)
           => cbVal[c] = ShowMessageBoxUTF16Result(nb[c], cancel[c], outcome[c])

C4_AsyncCallbackOnceOnUI ==
  /\ []C4Safety
  /\ \A c \in Calls : started[c] ~> (cbCount[c] = 1)

C4_Witness ==
  \E c, d \in Calls :
    /\ c # d /\ started[c] /\ cbCount[c] = 1 /\ outcome[c] = Pick(0)
    /\ wpc[d] = "dialog"

\* C5: a started worker thread is destroyed on the UI thread only after the
\* callback task was posted, and under fair scheduling it is always destroyed.
C5Safety ==
  \A c \in Calls :
    /\ (started[c] /\ thread[c] = "deleted") => (delBy[c] = "ui" /\ cbCount[c] = 1)
    /\ \A i \in DOMAIN uiQueue :
         (uiQueue[i].kind = "delete" /\ uiQueue[i].call = c)
           => (cbCount[c] = 1 \/ \E j \in 1..(i - 1) :
                 uiQueue[j].kind = "callback" /\ uiQueue[j].call = c)

C5_WorkerThreadReclaimed ==
  /\ []C5Safety
  /\ \A c \in Calls : started[c] ~> (thread[c] = "deleted")

C5_Witness ==
  \E c \in Calls : started[c] /\ thread[c] = "deleted"

\* C10: the DialogScope marker of a parent is held for the whole native
\* dialog call, sync or async, and is not held once no dialog call for that
\* parent is in progress, also when dialogs for the same parent interleave
\* (a call stopped at &front() keeps its scope).
C10_DialogScopeDuringNativeCall ==
  \A w \in Windows :
    scope[w] <=> \E c \in Calls : phase[c] \in {"dialog", "aborted"} /\ par[c] = w

\* C6: with an empty detail the content is the message and there is no main
\* instruction; otherwise the message is the main instruction and the detail
\* the content.
C6_DetailPlacement ==
  Len(cfg) = 1 =>
    IF cfgIn.detail = ""
      THEN cfg[1].pszContent = cfgIn.message /\ cfg[1].pszMainInstruction = "NULL"
      ELSE cfg[1].pszMainInstruction = cfgIn.message /\ cfg[1].pszContent = cfgIn.detail

C6_Witness == Len(cfg) = 1 /\ cfgIn.detail # ""

\* C7: a non-null icon is the main icon (TDF_USE_HICON_MAIN, no built-in
\* icon); otherwise the built-in icon follows the information, warning and
\* error types.
C7_IconPrecedence ==
  Len(cfg) = 1 =>
    IF ~cfgIn.iconNull
      THEN /\ "TDF_USE_HICON_MAIN" \in cfg[1].dwFlags
           /\ cfg[1].hMainIcon = "HICON" /\ cfg[1].pszMainIcon = "NULL"
      ELSE /\ "TDF_USE_HICON_MAIN" \notin cfg[1].dwFlags
           /\ cfgIn.type = "information" => cfg[1].pszMainIcon = "TD_INFORMATION_ICON"
           /\ cfgIn.type = "warning" => cfg[1].pszMainIcon = "TD_WARNING_ICON"
           /\ cfgIn.type = "error" => cfg[1].pszMainIcon = "TD_ERROR_ICON"

C7_Witness == Len(cfg) = 1 /\ ~cfgIn.iconNull

\* C8: the dialog is cancelable exactly when cancel_id is non-zero, and
\* TDF_SIZE_TO_CONTENT is always set.
C8_CancelableFlag ==
  Len(cfg) = 1 =>
    /\ ("TDF_ALLOW_DIALOG_CANCELLATION" \in cfg[1].dwFlags) <=> (cfgIn.cancel_id # 0)
    /\ "TDF_SIZE_TO_CONTENT" \in cfg[1].dwFlags

C8_Witness == Len(cfg) = 1 /\ cfgIn.cancel_id = -1

====
